---- MODULE Spec2Model ----
(***************************************************************************)
(* Tap & Dodge: the gameplay engine of components/game/GameEngine.tsx.     *)
(*                                                                         *)
(* GameEngine is a React function component.  Every render creates new     *)
(* handler functions, and a handler reads the React state (gameState,      *)
(* score, obstacles, difficultyLevel) of the render that created it.  Refs *)
(* (gameStateRef, obstacleSpeed, nextObstacleId, the timer refs) and the   *)
(* shared values (playerPosition, the pooled y cells) are read live.       *)
(* A timer or animation-frame callback armed by startGame therefore keeps  *)
(* reading the state of the render in which startGame was created; the     *)
(* model records such a render in loopRender / spawnRender.                *)
(*                                                                         *)
(* Units: x, widths and heights are pixels; y cells and speeds are tenths  *)
(* of a pixel (speed 3 px/frame is 30, the increment 0.2 px/frame is 2).   *)
(***************************************************************************)
EXTENDS Integers, Sequences, FiniteSets, TLC

\* ---------------------------------------------------------------- constants
\* The window of Dimensions.get('window') is that of a 320 x 568 device.
SCREEN_WIDTH == 320
SCREEN_HEIGHT == 568
PLAYER_SIZE == 40
PLATFORM_HEIGHT == 20
OBSTACLE_MIN_WIDTH == 30
OBSTACLE_MAX_WIDTH == 80
OBSTACLE_MIN_HEIGHT == 20
OBSTACLE_MAX_HEIGHT == 40
OBSTACLE_SPEED_INITIAL == 30
OBSTACLE_SPEED_INCREMENT == 2
OBSTACLE_GENERATION_INTERVAL_INITIAL == 2000
OBSTACLE_GENERATION_INTERVAL_MIN == 800
PLAYER_MOVE_DISTANCE == 70
MAX_OBSTACLES == 20
collisionBuffer == 5
\* PhysicsEngine.tsx: attempts of the fallback loop of ObstacleGenerator
FALLBACK_ATTEMPTS == 5
\* Analytics.tsx
MAX_EVENTS == 100
\* The fixed-step loop of src/unnamed/part_008, in thirds of a millisecond:
\* targetFrameTime = 1000 / 60 ms, maxDeltaTime = 50 ms
targetFrameTime == 50
maxDeltaTime == 150

\* ------------------------------------------------------------------- bounds
\* taps delivered to one mounted component (nextTapId is unbounded in the code)
MaxTaps == 3
\* score ticks modelled
MaxScore == 2
\* difficulty ticks modelled
MaxTicks == 2
\* difficulty ticks modelled under SpecDiff: past the tick that brings the
\* spawn interval to its minimum
LongTicks == 8
\* obstacles spawned in one run (nextObstacleId is unbounded in the code)
MaxSpawns == 3
\* obstacles spawned in one run under SpecCap: above MAX_OBSTACLES
CapSpawns == 22
\* frame times one physics step spans (deltaTime / targetFrameTime) on a slow
\* device; the code puts no upper limit on deltaTime
StallFrames == 44
\* frames a physics step spans under SpecCap: a stall after which every
\* obstacle is below the screen
CapStall == 250
\* physics steps of one recorded stretch of a run
MaxReplay == 3
\* Math.random() draws on offer to one run of the fallback loop of
\* ObstacleGenerator: more than the loop may take
MaxCandidates == 6
\* calls of GameScreen's handleGameOver modelled
MaxSaves == 3
\* highest score reported to GameScreen
MaxReported == 2
\* invocations of the fixed-step game loop modelled
MaxFrames == 5
\* CountdownTimer instances mounted one after the other
MaxMounts == 2
\* renders of the parent, each passing a new onComplete, per run
MaxRenders == 3
\* calls of Analytics.trackEvent modelled
MaxEvents == 3
\* the ids followed in a run without end, which is also the most obstacles
\* such a run has live at once
MaxLive == 5

\* Math.random() draws of one generateObstacle call.  Fractions are halves:
\* 0 stands for 0.0 and 1 for 0.5; coin is the draw compared with 0.5.
Draws ==
  [ w : {OBSTACLE_MAX_WIDTH}, h : {OBSTACLE_MAX_HEIGHT},
    coin : {0, 1}, rx : {0}, rf : {1}, ry : {0} ]
OneDraw ==
  [ w : {OBSTACLE_MIN_WIDTH}, h : {OBSTACLE_MIN_HEIGHT},
    coin : {0}, rx : {0}, rf : {0}, ry : {0} ]
\* Draws for the placement: three widths, and fractions 0, 0.5 and the
\* supremum 1 of Math.random(), which bounds every draw below it.
PlaceDraws ==
  [ w : {OBSTACLE_MIN_WIDTH, (OBSTACLE_MIN_WIDTH + OBSTACLE_MAX_WIDTH) \div 2,
         OBSTACLE_MAX_WIDTH},
    h : {OBSTACLE_MAX_HEIGHT}, coin : {0, 1}, rx : {0, 1, 2}, rf : {0, 1, 2}, ry : {0} ]
Factors == {StallFrames}

VARIABLES
  gameState,                  \* useState 'idle' | 'countdown' | 'playing' | 'gameover'
  gameStateRef,               \* useRef, written together with gameState
  score,                      \* useState
  difficultyLevel,            \* useState
  previousLevel,              \* useRef
  obstacles,                  \* useState: sequence of [id, x, width, height, cell]
  sharedValuePool,            \* the pooled y cells sv1..sv20, tenths of a pixel
  playerPosition,             \* shared value: the player's left edge, as read
                              \* by the next handler that runs
  playerTarget,               \* the value the last withSpring animates towards
  obstacleSpeed,              \* useRef, tenths of a pixel per frame
  obstacleGenerationInterval, \* useRef, ms
  nextObstacleId,             \* useRef
  nextTapId,                  \* useRef
  gameLoopRef,                \* "null" | "armed" | "stale"
  obstacleGeneratorRef,       \* "null" | "armed" | "cleared"
  spawnTimers,                \* periods (ms) of the live spawn intervals, oldest
                              \* first; the ref, when armed, holds the last
  scoreIntervalRef,           \* "null" | "armed" | "cleared"
  difficultyIncreaseRef,      \* "null" | "armed" | "cleared"
  loopRender,                 \* the render whose closures startGame armed
  spawnRender,                \* the render whose generateObstacle the spawn timer calls
  gameOverCalls,              \* scores passed to onGameOver, oldest first
  levelUps,                   \* levels announced by the level-up effect
  leakedTimers,               \* live intervals whose handle a ref no longer holds
  sinceSpawn,                 \* physics steps since the last spawn, in a run that
                              \* keeps the timers' periods; NotTimed otherwise
  replay,                     \* a recorded stretch of the run: the store it started
                              \* from and the (speedFactor, speed) of each step since
  difficultyTicks,            \* firings of the difficulty interval since initializeGame
  fallback,                   \* the last run of the fallback loop of ObstacleGenerator
  storedHighScore,            \* GameScreen: the item HIGH_SCORE_KEY of AsyncStorage
  saves,                      \* GameScreen: the calls of handleGameOver, oldest first
  setItemQueue,               \* GameScreen: setItem requests not yet carried out
  fixedStep,                  \* the closure variables of the fixed-step game loop
                              \* (thirds of a ms) with the steps it has run
  countdown,                  \* CountdownTimer: its state and refs, what is pending,
                              \* and what it has done since it was mounted
  analytics                   \* Analytics: eventsCache, the stored item, the calls of
                              \* trackEvent and the setItem requests in flight

vars == << gameState, gameStateRef, score, difficultyLevel, previousLevel,
           obstacles, sharedValuePool, playerPosition, playerTarget, obstacleSpeed,
           obstacleGenerationInterval, nextObstacleId, nextTapId, gameLoopRef,
           obstacleGeneratorRef, spawnTimers, scoreIntervalRef, difficultyIncreaseRef,
           loopRender, spawnRender, gameOverCalls, levelUps, leakedTimers,
           replay, difficultyTicks, fallback, sinceSpawn,
           storedHighScore, saves, setItemQueue, fixedStep, countdown, analytics >>

\* The variables of GameEngine.tsx and of the fallback loop
engineVars == << gameState, gameStateRef, score, difficultyLevel, previousLevel,
                 obstacles, sharedValuePool, playerPosition, playerTarget, obstacleSpeed,
                 obstacleGenerationInterval, nextObstacleId, nextTapId, gameLoopRef,
                 obstacleGeneratorRef, spawnTimers, scoreIntervalRef, difficultyIncreaseRef,
                 loopRender, spawnRender, gameOverCalls, levelUps, leakedTimers,
                 replay, difficultyTicks, fallback, sinceSpawn >>

\* The variables of GameScreen.tsx
screenVars == << storedHighScore, saves, setItemQueue >>

\* The variables outside GameEngine.tsx
componentVars == << screenVars, fixedStep, countdown, analytics >>

\* ------------------------------------------------------------------ helpers
\* The value of an AsyncStorage item that was never set (getItem gives null)
NoItem == -1
\* sinceSpawn in a run whose steps are not timed
NotTimed == -1

Max(a, b) == IF a >= b THEN a ELSE b
Min(a, b) == IF a <= b THEN a ELSE b

\* The React state a handler created now would read.
Render(gs, sc, obs, lvl) ==
  [ gameState |-> gs, score |-> sc, obstacles |-> obs, difficultyLevel |-> lvl ]
CurrentRender == Render(gameState, score, obstacles, difficultyLevel)

\* y of an obstacle: the value of its pooled cell
YOf(pool, o) == pool[o.cell]

\* The store generateObstacle and the physics step work on.
Store(obs, pool, nid) == [ obstacles |-> obs, pool |-> pool, nextObstacleId |-> nid ]

\* -------------------------------------------------------- generateObstacle
\* The placement without the clamp of the right-hand start and without the
\* validity check that falls back to a position anywhere on the screen
obstacleXUnchecked(px, d) ==
  LET width == d.w
      playerCenter == px + (PLAYER_SIZE \div 2)
      safeZoneWidth == (PLAYER_SIZE * 5) \div 2
      safeZoneLeft == Max(0, playerCenter - safeZoneWidth)
      safeZoneRight == Min(SCREEN_WIDTH, playerCenter + safeZoneWidth)
  IN IF 3 * playerCenter < SCREEN_WIDTH
       THEN safeZoneRight + (d.rx * (SCREEN_WIDTH - safeZoneRight - width)) \div 2
     ELSE IF 3 * playerCenter > 2 * SCREEN_WIDTH
       THEN (d.rx * (safeZoneLeft - width)) \div 2
     ELSE IF d.coin = 1
       THEN (d.rx * Max(0, safeZoneLeft - width)) \div 2
     ELSE safeZoneRight + (d.rx * Max(0, SCREEN_WIDTH - safeZoneRight - width)) \div 2

\* x position chosen by generateObstacle for a player at px (lines 327-353)
obstacleX(px, d) ==
  LET width == d.w
      playerCenter == px + (PLAYER_SIZE \div 2)
      safeZoneWidth == (PLAYER_SIZE * 5) \div 2
      safeZoneLeft == Max(0, playerCenter - safeZoneWidth)
      safeZoneRight == Min(SCREEN_WIDTH, playerCenter + safeZoneWidth)
      x == IF 3 * playerCenter < SCREEN_WIDTH
             THEN safeZoneRight + (d.rx * (SCREEN_WIDTH - safeZoneRight - width)) \div 2
           ELSE IF 3 * playerCenter > 2 * SCREEN_WIDTH
             THEN (d.rx * (safeZoneLeft - width)) \div 2
           ELSE IF d.coin = 1
             THEN (d.rx * Max(0, safeZoneLeft - width)) \div 2
           ELSE Min(SCREEN_WIDTH - width, safeZoneRight)
                  + (d.rx * Max(0, SCREEN_WIDTH - safeZoneRight - width)) \div 2
  IN IF x < 0 \/ x > SCREEN_WIDTH - width
       THEN (d.rf * (SCREEN_WIDTH - width)) \div 2
       ELSE x

\* generateObstacle numbering the obstacle by the length of the list it reads
generateObstacleByLength(s, r, ref, px, d) ==
  IF ref # "playing" THEN s
  ELSE IF Len(r.obstacles) >= MAX_OBSTACLES THEN s
  ELSE LET poolIndex == Len(r.obstacles) % MAX_OBSTACLES
           newId == Len(r.obstacles)
       IN Store( Append(s.obstacles,
                        [ id |-> newId, x |-> obstacleX(px, d),
                          width |-> d.w, height |-> d.h, cell |-> poolIndex ]),
                 [ s.pool EXCEPT ![poolIndex] = -(10 * d.h) - (d.ry * 500) \div 2 ],
                 s.nextObstacleId + 1 )

\* generateObstacle as created by render r, called with the store s
generateObstacle(s, r, ref, px, d) ==
  IF ref # "playing" THEN s
  ELSE IF Len(r.obstacles) >= MAX_OBSTACLES THEN s
  ELSE LET poolIndex == Len(r.obstacles) % MAX_OBSTACLES
           newId == s.nextObstacleId
       IN Store( Append(s.obstacles,
                        [ id |-> newId, x |-> obstacleX(px, d),
                          width |-> d.w, height |-> d.h, cell |-> poolIndex ]),
                 [ s.pool EXCEPT ![poolIndex] = -(10 * d.h) - (d.ry * 500) \div 2 ],
                 newId + 1 )

\* ------------------------------------- ObstacleGenerator (PhysicsEngine.tsx)
\* |a - b|
Distance(a, b) == IF a >= b THEN a - b ELSE b - a

\* A fallback loop that gives up (x = -1) when its last candidate is still
\* over the player.
fallbackFromRejecting(candidates, playerCenter, width, attempts) ==
  LET x == (candidates[attempts + 1] * (SCREEN_WIDTH - width)) \div 2
  IN IF Distance(x + width \div 2, playerCenter) < PLAYER_SIZE
       THEN [ x |-> -1, attempts |-> attempts + 1 ]
       ELSE [ x |-> x, attempts |-> attempts + 1 ]

\* The do-while loop of lines 139-145 of PhysicsEngine.tsx after `attempts`
\* draws: candidates are the Math.random() draws in halves, as in Draws.
RECURSIVE fallbackFrom(_, _, _, _)
fallbackFrom(candidates, playerCenter, width, attempts) ==
  LET x == (candidates[attempts + 1] * (SCREEN_WIDTH - width)) \div 2
      n == attempts + 1
  IN IF Distance(x + width \div 2, playerCenter) < PLAYER_SIZE /\ n < FALLBACK_ATTEMPTS
       THEN fallbackFrom(candidates, playerCenter, width, n)
       ELSE [ x |-> x, attempts |-> n ]

\* ------------------------------------------------ updateObstaclesWithDelta
\* The updater of lines 417-439: every obstacle of the list, in order, adds the
\* displacement to its cell, and is dropped with its cell reset once the cell
\* is at or below the bottom of the screen.
RECURSIVE MoveFrom(_, _, _, _, _)
MoveFrom(obs, pool, keep, i, dy) ==
  IF i > Len(obs) THEN [ obstacles |-> keep, pool |-> pool ]
  ELSE LET o == obs[i]
           y == pool[o.cell] + dy
       IN IF y < 10 * SCREEN_HEIGHT
            THEN MoveFrom(obs, [ pool EXCEPT ![o.cell] = y ], Append(keep, o), i + 1, dy)
            ELSE MoveFrom(obs, [ pool EXCEPT ![o.cell] = -1000 ], keep, i + 1, dy)

\* A motion update whose displacement also reads the score of the moment it
\* runs at.
updateObstaclesWithDeltaDrift(s, ref, speed, speedFactor) ==
  IF ref # "playing" THEN s
  ELSE LET m == MoveFrom(s.obstacles, s.pool, << >>, 1, speed * speedFactor + score)
       IN Store(m.obstacles, m.pool, s.nextObstacleId)

updateObstaclesWithDelta(s, ref, speed, speedFactor) ==
  IF ref # "playing" THEN s
  ELSE LET m == MoveFrom(s.obstacles, s.pool, << >>, 1, speed * speedFactor)
       IN Store(m.obstacles, m.pool, s.nextObstacleId)

\* A second run of the motion update: the steps of inputs from i on, applied
\* to the store s while the game is playing.
RECURSIVE replayFrom(_, _, _)
replayFrom(s, inputs, i) ==
  IF i > Len(inputs) THEN s
  ELSE replayFrom(updateObstaclesWithDelta(s, "playing", inputs[i].speed,
                                           inputs[i].speedFactor),
                  inputs, i + 1)

\* ---------------------------------------------------------- checkCollisions
\* A test whose hitboxes reach collisionBuffer beyond the rectangles
CollidesGrown(px, o, y) ==
  /\ px + PLAYER_SIZE + collisionBuffer > o.x
  /\ px - collisionBuffer < o.x + o.width
  /\ 10 * (SCREEN_HEIGHT - PLATFORM_HEIGHT - PLAYER_SIZE - collisionBuffer)
       < y + 10 * o.height + 10 * collisionBuffer
  /\ 10 * (SCREEN_HEIGHT - PLATFORM_HEIGHT) > y

\* The test of checkCollisions in the revision of src/unnamed/part_008 (lines
\* 1193-1216) for one obstacle with its cell value y (tenths); buffer is the
\* collisionBuffer of line 1183, 8 in dev mode and 4 otherwise.
CollidesRevision(px, o, y, buffer) ==
  LET playerTop == SCREEN_HEIGHT - PLATFORM_HEIGHT - PLAYER_SIZE
      playerBottom == SCREEN_HEIGHT - PLATFORM_HEIGHT
      playerHitboxLeft == px + buffer
      playerHitboxRight == px + PLAYER_SIZE - buffer
      playerHitboxTop == playerTop + buffer
      obstacleBottom == y + 10 * o.height
      obstacleCollisionBuffer == 2
  IN /\ ~(obstacleBottom < 10 * playerHitboxTop \/ y > 10 * playerBottom)
     /\ playerHitboxRight > o.x + obstacleCollisionBuffer
     /\ playerHitboxLeft < o.x + o.width - obstacleCollisionBuffer
     /\ 10 * playerHitboxTop < obstacleBottom - 10 * obstacleCollisionBuffer
     /\ 10 * playerBottom > y + 10 * obstacleCollisionBuffer

\* The test of lines 524-529 for one obstacle with its cell value y (tenths).
Collides(px, o, y) ==
  LET playerTop == SCREEN_HEIGHT - PLATFORM_HEIGHT - PLAYER_SIZE
      playerBottom == SCREEN_HEIGHT - PLATFORM_HEIGHT
      playerHitboxLeft == px + collisionBuffer
      playerHitboxRight == px + PLAYER_SIZE - collisionBuffer
      playerHitboxTop == playerTop + collisionBuffer
      obstacleBottom == y + 10 * o.height
      obstacleHitboxBottom == obstacleBottom - 10 * collisionBuffer
  IN /\ obstacleBottom >= 10 * playerTop
     /\ y <= 10 * playerBottom
     /\ playerHitboxRight > o.x
     /\ playerHitboxLeft < o.x + o.width
     /\ 10 * playerHitboxTop < obstacleHitboxBottom
     /\ 10 * playerBottom > y

\* checkCollisions as created by render r: it walks r.obstacles
checkCollisions(r, ref, pool, px) ==
  /\ ref = "playing"
  /\ \E i \in 1..Len(r.obstacles) : Collides(px, r.obstacles[i], YOf(pool, r.obstacles[i]))

\* A walk that stops at the first obstacle whether it is hit or not.
collisionLoopFirstOnly(obs, pool, px, i) ==
  IF i > Len(obs) THEN -1
  ELSE IF Collides(px, obs[i], YOf(pool, obs[i])) THEN obs[i].id ELSE -1

\* The cell of an obstacle whose position.y is undefined
NoCell == -1

\* A walk that reads the y of every obstacle: at one without a y the read of
\* .value throws (-2).
RECURSIVE collisionLoopUnguarded(_, _, _, _)
collisionLoopUnguarded(obs, pool, px, i) ==
  IF i > Len(obs) THEN -1
  ELSE IF obs[i].cell = NoCell THEN -2
  ELSE IF Collides(px, obs[i], YOf(pool, obs[i]))
         THEN obs[i].id
         ELSE collisionLoopUnguarded(obs, pool, px, i + 1)

\* The filter of lines 502-509 and the for loop of lines 512-534 from position
\* i of the list obs: the id of the obstacle at which the loop calls
\* handleGameOver and breaks, -1 if it runs out.  An obstacle without a y is
\* dropped by the filter (line 503) and skipped by the loop (line 513).
RECURSIVE collisionLoop(_, _, _, _)
collisionLoop(obs, pool, px, i) ==
  IF i > Len(obs) THEN -1
  ELSE IF obs[i].cell = NoCell THEN collisionLoop(obs, pool, px, i + 1)
  ELSE IF Collides(px, obs[i], YOf(pool, obs[i]))
         THEN obs[i].id
         ELSE collisionLoop(obs, pool, px, i + 1)

\* The orderings of a list
Orderings(obs) ==
  { [ i \in 1..Len(obs) |-> obs[q[i]] ] :
      q \in { f \in [ 1..Len(obs) -> 1..Len(obs) ] :
                \A i, j \in 1..Len(obs) : f[i] = f[j] => i = j } }

\* ------------------------------------------------------------------- Init
InitWith(timed) ==
  /\ gameState = "idle"
  /\ gameStateRef = "idle"
  /\ score = 0
  /\ difficultyLevel = 1
  /\ previousLevel = 1
  /\ obstacles = << >>
  /\ sharedValuePool = [ i \in 0..(MAX_OBSTACLES - 1) |-> -1000 ]
  /\ playerPosition = SCREEN_WIDTH \div 2 - PLAYER_SIZE \div 2
  /\ playerTarget = SCREEN_WIDTH \div 2 - PLAYER_SIZE \div 2
  \* the deviceType effect of the mount: a tablet starts with speed * 1.2
  /\ obstacleSpeed \in { OBSTACLE_SPEED_INITIAL, (OBSTACLE_SPEED_INITIAL * 12) \div 10 }
  /\ obstacleGenerationInterval = OBSTACLE_GENERATION_INTERVAL_INITIAL
  /\ nextObstacleId = 0
  /\ nextTapId = 0
  /\ gameLoopRef = "null"
  /\ obstacleGeneratorRef = "null"
  /\ spawnTimers = << >>
  /\ scoreIntervalRef = "null"
  /\ difficultyIncreaseRef = "null"
  /\ loopRender = Render("idle", 0, << >>, 1)
  /\ spawnRender = Render("idle", 0, << >>, 1)
  /\ gameOverCalls = << >>
  /\ levelUps = << >>
  /\ leakedTimers = 0
  /\ sinceSpawn = IF timed THEN 0 ELSE NotTimed
  /\ replay = [ recording |-> FALSE, inputs |-> << >>,
                start |-> Store(<< >>, [ i \in 0..(MAX_OBSTACLES - 1) |-> -1000 ], 0) ]
  /\ difficultyTicks = 0
  /\ fallback = [ x |-> 0, attempts |-> 0, candidates |-> << >>,
                  width |-> 0, playerCenter |-> 0 ]
  /\ storedHighScore = NoItem
  /\ saves = << >>
  /\ setItemQueue = << >>
  /\ fixedStep = [ now |-> 0, lastTime |-> 0, accumulatedTime |-> 0,
                   steps |-> 0, elapsed |-> 0, frames |-> 0 ]
  /\ countdown = [ mounted |-> FALSE, mounts |-> 0, count |-> 3, animating |-> FALSE,
                   hasCalledComplete |-> FALSE, timeout |-> FALSE,
                   onComplete |-> 0, onCompleteRef |-> 0,
                   shown |-> << >>, finished |-> 0, decrements |-> 0,
                   completes |-> << >> ]
  /\ analytics = [ cached |-> FALSE, eventsCache |-> << >>, stored |-> << >>,
                   calls |-> << >>, setItems |-> << >>, completed |-> << >> ]

\* The state after the first render
Init == InitWith(FALSE)
\* ... of a run in which the spawn timer keeps its period
InitTimed == InitWith(TRUE)


\* ------------------------------------------------------------------ spring
\* withSpring(toValue, { damping: 15, stiffness: 150 }) of lines 577 and 584,
\* started at `from`: the value of the shared value once the animation has
\* come as far as p.  With mass 1 the spring is underdamped (damping ratio
\* 15 / (2 * sqrt(150)) = 0.61) and its first overshoot is 8.77 % of the way.
SpringProgress == { "start", "half", "over", "rest" }
withSpring(from, to, p) ==
  CASE p = "start" -> from
    [] p = "half"  -> (from + to) \div 2
    [] p = "over"  -> IF to >= from THEN to + ((to - from) * 877) \div 10000
                                    ELSE to - ((from - to) * 877) \div 10000
    [] OTHER       -> to

\* ---------------------------------------------------------------- handlers
\* The level-up effect (lines 240-249), run after a render in which gameState
\* or difficultyLevel changed: the pair <<previousLevel, levels announced>>.
levelUpEffect(gs, lvl, prev, ups) ==
  IF gs = "playing" /\ lvl > prev THEN << lvl, Append(ups, lvl) >> ELSE << prev, ups >>

\* The spawn-interval effect (lines 736-755) at a render whose gameState
\* changed: the cleanup of the previous render clears the interval of the ref,
\* and a render in 'playing' arms a fresh one calling its own generateObstacle.
spawnIntervalEffect(gs, ref) ==
  IF gs = "playing" THEN "armed" ELSE IF ref = "null" THEN "null" ELSE "cleared"

\* The live spawn intervals after clearInterval(obstacleGeneratorRef.current)
clearSpawn(ref, timers) ==
  IF ref = "armed" THEN SubSeq(timers, 1, Len(timers) - 1) ELSE timers
\* ... and after a setInterval of the given period stored in the ref; every
\* setInterval of the ref follows a clearInterval of it (lines 196-209,
\* 270-276, 739-747).
armSpawn(ref, timers, period) == Append(clearSpawn(ref, timers), period)
\* The live spawn intervals after the spawn-interval effect (lines 736-755)
spawnIntervalEffectTimers(gs, ref, timers, period) ==
  IF gs = "playing" THEN armSpawn(ref, timers, period) ELSE clearSpawn(ref, timers)

\* The whole physics steps of StallFrames frame times that fit in a period of
\* the spawn interval (in thirds of a ms)
stepsPerSpawn(interval) == (3 * interval) \div (StallFrames * targetFrameTime)
\* In a timed run the spawn interval fires once that many steps have run
\* since it last fired.
spawnDue ==
  sinceSpawn = NotTimed \/ sinceSpawn >= stepsPerSpawn(obstacleGenerationInterval)
afterSpawn(n) == IF n = NotTimed THEN NotTimed ELSE 0
afterStep(n) ==
  IF n = NotTimed THEN NotTimed
  ELSE Min(n + 1, stepsPerSpawn(OBSTACLE_GENERATION_INTERVAL_INITIAL))

\* initializeGame without the reset of obstacleSpeed
initializeGameKeepsSpeed ==
  /\ gameState' = "countdown"
  /\ gameStateRef' = "countdown"
  /\ score' = 0
  /\ obstacles' = << >>
  /\ difficultyLevel' = 1
  /\ previousLevel' = 1
  /\ playerPosition' = SCREEN_WIDTH \div 2 - PLAYER_SIZE \div 2
  /\ playerTarget' = SCREEN_WIDTH \div 2 - PLAYER_SIZE \div 2
  /\ obstacleGenerationInterval' = OBSTACLE_GENERATION_INTERVAL_INITIAL
  /\ nextObstacleId' = 0
  /\ obstacleGeneratorRef' = spawnIntervalEffect("countdown", obstacleGeneratorRef)
  /\ spawnTimers' = spawnIntervalEffectTimers("countdown", obstacleGeneratorRef, spawnTimers,
                                              OBSTACLE_GENERATION_INTERVAL_INITIAL)
  /\ UNCHANGED << obstacleSpeed, sharedValuePool, gameLoopRef, scoreIntervalRef,
                  difficultyIncreaseRef, loopRender, spawnRender, gameOverCalls,
                  levelUps,
                  leakedTimers, replay, fallback, componentVars, sinceSpawn >>
  /\ difficultyTicks' = 0

\* initializeGame (lines 160-175), with the effects of the render it causes
initializeGame ==
  /\ gameState' = "countdown"
  /\ gameStateRef' = "countdown"
  /\ score' = 0
  /\ obstacles' = << >>
  /\ difficultyLevel' = 1
  /\ previousLevel' = 1
  /\ playerPosition' = SCREEN_WIDTH \div 2 - PLAYER_SIZE \div 2
  /\ playerTarget' = SCREEN_WIDTH \div 2 - PLAYER_SIZE \div 2
  /\ obstacleSpeed' = OBSTACLE_SPEED_INITIAL
  /\ obstacleGenerationInterval' = OBSTACLE_GENERATION_INTERVAL_INITIAL
  /\ nextObstacleId' = 0
  /\ obstacleGeneratorRef' = spawnIntervalEffect("countdown", obstacleGeneratorRef)
  /\ spawnTimers' = spawnIntervalEffectTimers("countdown", obstacleGeneratorRef, spawnTimers,
                                              OBSTACLE_GENERATION_INTERVAL_INITIAL)
  /\ UNCHANGED << sharedValuePool, gameLoopRef, scoreIntervalRef, difficultyIncreaseRef,
                  loopRender, spawnRender, gameOverCalls, levelUps,
                  leakedTimers, replay, fallback, componentVars, sinceSpawn >>
  /\ difficultyTicks' = 0

\* handleTap starting a new game whatever the state
handleTapRestarts(left, p) ==
  /\ nextTapId < MaxTaps
  /\ nextTapId' = nextTapId + 1
  /\ initializeGame

\* handleTap moving the player in every state but 'idle'
handleTapMovesAlways(left, p) ==
  /\ nextTapId < MaxTaps
  /\ nextTapId' = nextTapId + 1
  /\ IF gameState = "idle" THEN initializeGame
     ELSE
       /\ LET newPosition ==
                 IF left THEN Max(0, playerPosition - PLAYER_MOVE_DISTANCE)
                 ELSE Min(SCREEN_WIDTH - PLAYER_SIZE,
                          playerPosition + PLAYER_MOVE_DISTANCE)
          IN /\ playerTarget' = newPosition
             /\ playerPosition' = withSpring(playerPosition, newPosition, p)
       /\ UNCHANGED << gameState, gameStateRef, score, difficultyLevel, previousLevel,
                       obstacles, sharedValuePool, obstacleSpeed,
                       obstacleGenerationInterval, nextObstacleId, gameLoopRef,
                       obstacleGeneratorRef, spawnTimers, scoreIntervalRef, difficultyIncreaseRef,
                       loopRender, spawnRender, gameOverCalls, levelUps,
                  leakedTimers, replay, difficultyTicks, fallback, componentVars, sinceSpawn >>

\* handleTap (lines 538-589): tapX < screenCenter is a tap on the left; p is
\* how far the spring it starts has come when the next handler runs
handleTap(left, p) ==
  /\ nextTapId < MaxTaps
  /\ nextTapId' = nextTapId + 1
  /\ IF gameState = "idle" THEN initializeGame
     ELSE IF gameState # "playing" THEN
       UNCHANGED << gameState, gameStateRef, score, difficultyLevel, previousLevel,
                    obstacles, sharedValuePool, playerPosition, playerTarget, obstacleSpeed,
                    obstacleGenerationInterval, nextObstacleId, gameLoopRef,
                    obstacleGeneratorRef, spawnTimers, scoreIntervalRef, difficultyIncreaseRef,
                    loopRender, spawnRender, gameOverCalls, levelUps,
                  leakedTimers, replay, difficultyTicks, fallback, componentVars, sinceSpawn >>
     ELSE
       /\ LET newPosition ==
                 IF left THEN Max(0, playerPosition - PLAYER_MOVE_DISTANCE)
                 ELSE Min(SCREEN_WIDTH - PLAYER_SIZE,
                          playerPosition + PLAYER_MOVE_DISTANCE)
          IN /\ playerTarget' = newPosition
             /\ playerPosition' = withSpring(playerPosition, newPosition, p)
       /\ UNCHANGED << gameState, gameStateRef, score, difficultyLevel, previousLevel,
                       obstacles, sharedValuePool, obstacleSpeed,
                       obstacleGenerationInterval, nextObstacleId, gameLoopRef,
                       obstacleGeneratorRef, spawnTimers, scoreIntervalRef, difficultyIncreaseRef,
                       loopRender, spawnRender, gameOverCalls, levelUps,
                  leakedTimers, replay, difficultyTicks, fallback, componentVars, sinceSpawn >>

\* A ref assigned a new interval (lines 212, 218) without a clear of the one it
\* holds: 1 if that one is live, and so can no longer be cleared.
Overwritten(ref) == IF ref = "armed" THEN 1 ELSE 0

\* startGame (lines 178-221), called by the CountdownTimer through the
\* onComplete of the latest countdown render, followed by the effects of the
\* render it causes (lines 727-755): a second generateObstacle, created by the
\* new render, and a fresh spawn interval calling that render's generateObstacle.
startGame(d1, d2) ==
  /\ gameState = "countdown"
  /\ LET rc == CurrentRender
         s1 == generateObstacle(Store(obstacles, sharedValuePool, nextObstacleId),
                                rc, "playing", playerPosition, d1)
         rp == Render("playing", score, s1.obstacles, difficultyLevel)
         s2 == generateObstacle(s1, rp, "playing", playerPosition, d2)
         lu == levelUpEffect("playing", difficultyLevel, previousLevel, levelUps)
     IN /\ gameState' = "playing"
        /\ gameStateRef' = "playing"
        /\ gameLoopRef' = "armed"
        /\ loopRender' = rc
        /\ obstacles' = s2.obstacles
        /\ sharedValuePool' = s2.pool
        /\ nextObstacleId' = s2.nextObstacleId
        /\ scoreIntervalRef' = "armed"
        /\ difficultyIncreaseRef' = "armed"
        /\ leakedTimers' = leakedTimers + Overwritten(scoreIntervalRef)
                                        + Overwritten(difficultyIncreaseRef)
        /\ UNCHANGED << replay, difficultyTicks, fallback, componentVars >>
        /\ sinceSpawn' = afterSpawn(sinceSpawn)
        /\ obstacleGeneratorRef' = spawnIntervalEffect("playing", "armed")
        /\ spawnTimers' =
             spawnIntervalEffectTimers("playing", "armed",
                                       armSpawn(obstacleGeneratorRef, spawnTimers,
                                                obstacleGenerationInterval),
                                       obstacleGenerationInterval)
        /\ spawnRender' = rp
        /\ previousLevel' = lu[1]
        /\ levelUps' = lu[2]
  /\ UNCHANGED << score, difficultyLevel, playerPosition, playerTarget, obstacleSpeed,
                  obstacleGenerationInterval, nextTapId, gameOverCalls >>

\* What a handler calls out to (playSound, expo-haptics and the two callback
\* props), and the outcomes of one handler run: none of them throws, or one does.
Collaborators == { "playSound", "Haptics", "onGameStateChange", "onGameOver" }
Failures == Collaborators \cup { "none" }

\* initializeGame (lines 160-175) when the collaborator fail throws.  playSound
\* is called inside the try of playGameSound (lines 712-719); onGameStateChange
\* is called by updateGameState (lines 618-620) with no try, after the ref and
\* the state were set, so that its exception leaves initializeGame at line 161.
initializeGameWhen(fail) ==
  IF fail = "onGameStateChange"
    THEN /\ gameState' = "countdown"
         /\ gameStateRef' = "countdown"
         /\ obstacleGeneratorRef' = spawnIntervalEffect("countdown", obstacleGeneratorRef)
         /\ spawnTimers' = spawnIntervalEffectTimers("countdown", obstacleGeneratorRef,
                                                     spawnTimers, obstacleGenerationInterval)
         /\ UNCHANGED << score, difficultyLevel, previousLevel, obstacles,
                         sharedValuePool, playerPosition, playerTarget, obstacleSpeed,
                         obstacleGenerationInterval, nextObstacleId, gameLoopRef,
                         scoreIntervalRef, difficultyIncreaseRef, loopRender,
                         spawnRender, gameOverCalls, levelUps, leakedTimers, replay, difficultyTicks, fallback, componentVars, sinceSpawn >>
    ELSE initializeGame

\* handleTap (lines 538-589) on the idle screen when the collaborator fail throws
handleTapWhen(fail) ==
  /\ gameState = "idle"
  /\ nextTapId < MaxTaps
  /\ nextTapId' = nextTapId + 1
  /\ initializeGameWhen(fail)

\* startGame (lines 178-221) when the collaborator fail throws.  An exception
\* of onGameStateChange leaves startGame at line 182: the state is 'playing',
\* and of all that follows only the effects of the playing render run (the
\* spawn of lines 727-733, the interval of lines 736-755, the level-up effect).
startGameWhen(fail, d1, d2) ==
  IF fail = "onGameStateChange"
    THEN /\ gameState = "countdown"
         /\ LET rp == Render("playing", score, obstacles, difficultyLevel)
                s2 == generateObstacle(Store(obstacles, sharedValuePool, nextObstacleId),
                                       rp, "playing", playerPosition, d2)
                lu == levelUpEffect("playing", difficultyLevel, previousLevel, levelUps)
            IN /\ gameState' = "playing"
               /\ gameStateRef' = "playing"
               /\ obstacles' = s2.obstacles
               /\ sharedValuePool' = s2.pool
               /\ nextObstacleId' = s2.nextObstacleId
               /\ obstacleGeneratorRef' = spawnIntervalEffect("playing", obstacleGeneratorRef)
               /\ spawnTimers' = spawnIntervalEffectTimers("playing", obstacleGeneratorRef,
                                                           spawnTimers,
                                                           obstacleGenerationInterval)
               /\ spawnRender' = rp
               /\ previousLevel' = lu[1]
               /\ levelUps' = lu[2]
         /\ UNCHANGED << score, difficultyLevel, playerPosition, playerTarget,
                         obstacleSpeed, obstacleGenerationInterval, nextTapId,
                         gameLoopRef, scoreIntervalRef, difficultyIncreaseRef,
                         loopRender, gameOverCalls, leakedTimers, replay,
                         difficultyTicks, fallback, componentVars >>
         /\ sinceSpawn' = afterSpawn(sinceSpawn)
    ELSE startGame(d1, d2)

\* The spawn interval fires: generateObstacle of the render that armed it
spawnTick(d, maxIds) ==
  /\ obstacleGeneratorRef = "armed"
  /\ nextObstacleId < maxIds
  /\ spawnDue
  /\ sinceSpawn' = afterSpawn(sinceSpawn)
  /\ LET s == generateObstacle(Store(obstacles, sharedValuePool, nextObstacleId),
                               spawnRender, gameStateRef, playerPosition, d)
     IN /\ obstacles' = s.obstacles
        /\ sharedValuePool' = s.pool
        /\ nextObstacleId' = s.nextObstacleId
  /\ UNCHANGED << gameState, gameStateRef, score, difficultyLevel, previousLevel,
                  playerPosition, playerTarget, obstacleSpeed, obstacleGenerationInterval, nextTapId,
                  gameLoopRef, obstacleGeneratorRef, spawnTimers, scoreIntervalRef,
                  difficultyIncreaseRef, loopRender, spawnRender, gameOverCalls,
                  levelUps,
                  leakedTimers, replay, difficultyTicks, fallback, componentVars >>

\* A score interval that runs from mount on, armed or not
scoreTickUnarmed ==
  /\ score < MaxScore
  /\ score' = score + 1
  /\ UNCHANGED << gameState, gameStateRef, difficultyLevel, previousLevel, obstacles,
                  sharedValuePool, playerPosition, playerTarget, obstacleSpeed,
                  obstacleGenerationInterval, nextObstacleId, nextTapId, gameLoopRef,
                  obstacleGeneratorRef, spawnTimers, scoreIntervalRef, difficultyIncreaseRef,
                  loopRender, spawnRender, gameOverCalls, levelUps,
                  leakedTimers, replay, difficultyTicks, fallback, componentVars, sinceSpawn >>

\* The score interval fires (lines 213-215)
scoreTick ==
  /\ scoreIntervalRef = "armed"
  /\ score < MaxScore
  /\ score' = score + 1
  /\ UNCHANGED << gameState, gameStateRef, difficultyLevel, previousLevel, obstacles,
                  sharedValuePool, playerPosition, playerTarget, obstacleSpeed,
                  obstacleGenerationInterval, nextObstacleId, nextTapId, gameLoopRef,
                  obstacleGeneratorRef, spawnTimers, scoreIntervalRef, difficultyIncreaseRef,
                  loopRender, spawnRender, gameOverCalls, levelUps,
                  leakedTimers, replay, difficultyTicks, fallback, componentVars, sinceSpawn >>

\* increaseDifficulty taking 200 ms off the spawn interval on every tick
increaseDifficultyNoFloor(maxTicks) ==
  /\ difficultyIncreaseRef = "armed"
  /\ obstacleSpeed < OBSTACLE_SPEED_INITIAL + maxTicks * OBSTACLE_SPEED_INCREMENT
  /\ LET newLevel == loopRender.difficultyLevel + 1
         lower == obstacleGenerationInterval > OBSTACLE_GENERATION_INTERVAL_MIN
         lu == levelUpEffect(gameState, newLevel, previousLevel, levelUps)
     IN /\ difficultyLevel' = newLevel
        /\ obstacleSpeed' = obstacleSpeed + OBSTACLE_SPEED_INCREMENT
        /\ obstacleGenerationInterval' =
             obstacleGenerationInterval - 200
        /\ IF lower /\ obstacleGeneratorRef # "null"
             THEN /\ obstacleGeneratorRef' = "armed"
                  /\ spawnTimers' = armSpawn(obstacleGeneratorRef, spawnTimers,
                                             obstacleGenerationInterval')
                  /\ spawnRender' = loopRender
             ELSE UNCHANGED << obstacleGeneratorRef, spawnTimers, spawnRender >>
        /\ previousLevel' = lu[1]
        /\ levelUps' = lu[2]
  /\ UNCHANGED << gameState, gameStateRef, score, obstacles, sharedValuePool,
                  playerPosition, playerTarget, nextObstacleId, nextTapId, gameLoopRef,
                  scoreIntervalRef, difficultyIncreaseRef, loopRender, gameOverCalls,
                  leakedTimers, replay, fallback, componentVars, sinceSpawn >>
  /\ difficultyTicks' = difficultyTicks + 1

\* increaseDifficulty raising the speed only while the interval is above its
\* minimum
increaseDifficultyCapped(maxTicks) ==
  /\ difficultyIncreaseRef = "armed"
  /\ difficultyTicks < maxTicks
  /\ LET newLevel == loopRender.difficultyLevel + 1
         lower == obstacleGenerationInterval > OBSTACLE_GENERATION_INTERVAL_MIN
         lu == levelUpEffect(gameState, newLevel, previousLevel, levelUps)
     IN /\ difficultyLevel' = newLevel
        /\ obstacleSpeed' = IF lower THEN obstacleSpeed + OBSTACLE_SPEED_INCREMENT
                                     ELSE obstacleSpeed
        /\ obstacleGenerationInterval' =
             IF lower
               THEN obstacleGenerationInterval
                      - Min(200, obstacleGenerationInterval - OBSTACLE_GENERATION_INTERVAL_MIN)
               ELSE obstacleGenerationInterval
        /\ IF lower /\ obstacleGeneratorRef # "null"
             THEN /\ obstacleGeneratorRef' = "armed"
                  /\ spawnTimers' = armSpawn(obstacleGeneratorRef, spawnTimers,
                                             obstacleGenerationInterval')
                  /\ spawnRender' = loopRender
             ELSE UNCHANGED << obstacleGeneratorRef, spawnTimers, spawnRender >>
        /\ previousLevel' = lu[1]
        /\ levelUps' = lu[2]
  /\ UNCHANGED << gameState, gameStateRef, score, obstacles, sharedValuePool,
                  playerPosition, playerTarget, nextObstacleId, nextTapId, gameLoopRef,
                  scoreIntervalRef, difficultyIncreaseRef, loopRender, gameOverCalls,
                  leakedTimers, replay, fallback, componentVars, sinceSpawn >>
  /\ difficultyTicks' = difficultyTicks + 1

\* increaseDifficulty leaving the spawn interval it found in force
increaseDifficultyKeepsTimer(maxTicks) ==
  /\ difficultyIncreaseRef = "armed"
  /\ obstacleSpeed < OBSTACLE_SPEED_INITIAL + maxTicks * OBSTACLE_SPEED_INCREMENT
  /\ LET newLevel == loopRender.difficultyLevel + 1
         lower == obstacleGenerationInterval > OBSTACLE_GENERATION_INTERVAL_MIN
         lu == levelUpEffect(gameState, newLevel, previousLevel, levelUps)
     IN /\ difficultyLevel' = newLevel
        /\ obstacleSpeed' = obstacleSpeed + OBSTACLE_SPEED_INCREMENT
        /\ obstacleGenerationInterval' =
             IF lower
               THEN obstacleGenerationInterval
                      - Min(200, obstacleGenerationInterval - OBSTACLE_GENERATION_INTERVAL_MIN)
               ELSE obstacleGenerationInterval
        /\ UNCHANGED << obstacleGeneratorRef, spawnTimers, spawnRender >>
        /\ previousLevel' = lu[1]
        /\ levelUps' = lu[2]
  /\ UNCHANGED << gameState, gameStateRef, score, obstacles, sharedValuePool,
                  playerPosition, playerTarget, nextObstacleId, nextTapId, gameLoopRef,
                  scoreIntervalRef, difficultyIncreaseRef, loopRender, gameOverCalls,
                  leakedTimers, replay, fallback, componentVars, sinceSpawn >>
  /\ difficultyTicks' = difficultyTicks + 1

\* The difficulty interval fires: increaseDifficulty (lines 252-278) as created
\* by the render of startGame, then the level-up effect of the render it causes
increaseDifficulty(maxTicks) ==
  /\ difficultyIncreaseRef = "armed"
  /\ obstacleSpeed < OBSTACLE_SPEED_INITIAL + maxTicks * OBSTACLE_SPEED_INCREMENT
  /\ LET newLevel == loopRender.difficultyLevel + 1
         lower == obstacleGenerationInterval > OBSTACLE_GENERATION_INTERVAL_MIN
         lu == levelUpEffect(gameState, newLevel, previousLevel, levelUps)
     IN /\ difficultyLevel' = newLevel
        /\ obstacleSpeed' = obstacleSpeed + OBSTACLE_SPEED_INCREMENT
        /\ obstacleGenerationInterval' =
             IF lower
               THEN obstacleGenerationInterval
                      - Min(200, obstacleGenerationInterval - OBSTACLE_GENERATION_INTERVAL_MIN)
               ELSE obstacleGenerationInterval
        /\ IF lower /\ obstacleGeneratorRef # "null"
             THEN /\ obstacleGeneratorRef' = "armed"
                  /\ spawnTimers' = armSpawn(obstacleGeneratorRef, spawnTimers,
                                             obstacleGenerationInterval')
                  /\ spawnRender' = loopRender
             ELSE UNCHANGED << obstacleGeneratorRef, spawnTimers, spawnRender >>
        /\ previousLevel' = lu[1]
        /\ levelUps' = lu[2]
  /\ UNCHANGED << gameState, gameStateRef, score, obstacles, sharedValuePool,
                  playerPosition, playerTarget, nextObstacleId, nextTapId, gameLoopRef,
                  scoreIntervalRef, difficultyIncreaseRef, loopRender, gameOverCalls,
                  leakedTimers, replay, fallback, componentVars, sinceSpawn >>
  /\ difficultyTicks' = difficultyTicks + 1

\* Whether handleGameOver (lines 281-313), as created by render r, goes
\* through: its guard reads the gameState of r.
handleGameOverRuns(r) == r.gameState # "gameover"

\* The timer refs after the clear calls of lines 305-309
Cleared(ref) == IF ref = "null" THEN "null" ELSE "cleared"

\* The record after a physics step of speedFactor frame times: the inputs the
\* step read (line 394 and obstacleSpeed.current of line 426), kept while a
\* stretch is being recorded and has room.
Recorded(speedFactor) ==
  IF replay.recording /\ gameStateRef = "playing"
    THEN IF Len(replay.inputs) < MaxReplay
           THEN [ replay EXCEPT !.inputs = Append(@, [ speedFactor |-> speedFactor,
                                                       speed |-> obstacleSpeed ]) ]
           ELSE [ replay EXCEPT !.recording = FALSE ]
    ELSE replay

\* One animation frame (lines 388-406) spanning speedFactor frame times:
\* updateObstaclesWithDelta, then checkCollisions as created by the render of
\* startGame, which on a hit calls that render's handleGameOver.
gameLoop(speedFactor) ==
  /\ gameLoopRef = "armed"
  /\ LET s == updateObstaclesWithDelta(Store(obstacles, sharedValuePool, nextObstacleId),
                                       gameStateRef, obstacleSpeed, speedFactor)
         hit == checkCollisions(loopRender, gameStateRef, s.pool, playerPosition)
     IN /\ obstacles' = s.obstacles
        /\ sharedValuePool' = s.pool
        /\ IF hit /\ handleGameOverRuns(loopRender)
             THEN /\ gameState' = "gameover"
                  /\ gameStateRef' = "gameover"
                  /\ gameLoopRef' = "stale"
                  /\ obstacleGeneratorRef' = Cleared(obstacleGeneratorRef)
                  /\ spawnTimers' = clearSpawn(obstacleGeneratorRef, spawnTimers)
                  /\ scoreIntervalRef' = Cleared(scoreIntervalRef)
                  /\ difficultyIncreaseRef' = Cleared(difficultyIncreaseRef)
                  /\ gameOverCalls' = Append(gameOverCalls, loopRender.score)
             ELSE /\ gameLoopRef' = IF gameStateRef = "playing" THEN "armed" ELSE "stale"
                  /\ UNCHANGED << gameState, gameStateRef, obstacleGeneratorRef, spawnTimers,
                                  scoreIntervalRef, difficultyIncreaseRef, gameOverCalls >>
  /\ UNCHANGED << score, difficultyLevel, previousLevel, playerPosition, playerTarget, obstacleSpeed,
                  obstacleGenerationInterval, nextObstacleId, nextTapId, loopRender,
                  spawnRender, levelUps,
                  leakedTimers, difficultyTicks, fallback, componentVars >>
  /\ replay' = Recorded(speedFactor)
  /\ sinceSpawn' = afterStep(sinceSpawn)

\* handleRestart (lines 592-594), the onRestart of the GameOverScreen, which is
\* rendered only while gameState is 'gameover'
handleRestart ==
  /\ gameState = "gameover"
  /\ initializeGame
  /\ UNCHANGED nextTapId

\* An id no live obstacle of the list has: the least one
freeId(obs) ==
  CHOOSE n \in 0..Len(obs) :
    /\ \A i \in 1..Len(obs) : obs[i].id # n
    /\ \A m \in 0..(n - 1) : \E i \in 1..Len(obs) : obs[i].id = m

\* The spawn interval fires in a run without end.  Ids are only ever compared
\* with the ids of live obstacles, so the run is folded: the counter of line
\* 365 is kept at an id that no live obstacle has.
spawnTickFolded(d) ==
  /\ obstacleGeneratorRef = "armed"
  /\ spawnDue
  /\ sinceSpawn' = afterSpawn(sinceSpawn)
  /\ LET s == generateObstacle(Store(obstacles, sharedValuePool, nextObstacleId),
                               spawnRender, gameStateRef, playerPosition, d)
     IN /\ obstacles' = s.obstacles
        /\ sharedValuePool' = s.pool
        /\ nextObstacleId' = freeId(s.obstacles)
  /\ UNCHANGED << gameState, gameStateRef, score, difficultyLevel, previousLevel,
                  playerPosition, playerTarget, obstacleSpeed, obstacleGenerationInterval,
                  nextTapId, gameLoopRef, obstacleGeneratorRef, spawnTimers,
                  scoreIntervalRef, difficultyIncreaseRef, loopRender, spawnRender,
                  gameOverCalls, levelUps, leakedTimers, replay, difficultyTicks,
                  fallback, componentVars >>

\* ------------------------------------------------------------ specification
\* In Spec and SpecCap the spring is at rest before the next handler runs.
Tap == \E left \in BOOLEAN : handleTap(left, "rest")
CountdownComplete == \E d1 \in Draws, d2 \in Draws : startGame(d1, d2)
SpawnTimer == \E d \in Draws : spawnTick(d, MaxSpawns)
ScoreTimer == scoreTick
DifficultyTimer == increaseDifficulty(MaxTicks)
Frame == \E f \in Factors : gameLoop(f)

Next ==
  \/ Tap
  \/ CountdownComplete
  \/ SpawnTimer
  \/ ScoreTimer
  \/ DifficultyTimer
  \/ Frame

Spec == Init /\ [][Next]_vars

\* A run in which the player taps only to start the game and every draw of
\* Math.random() is the same: every behaviour of SpecCap is a behaviour of the
\* engine, with room for more spawns than MAX_OBSTACLES.  Its physics steps
\* follow a long stall of the animation frames.
StartTap == gameState = "idle" /\ handleTap(TRUE, "rest")
CountdownCompleteCap == \E d \in OneDraw : startGame(d, d)
SpawnTimerCap == \E d \in OneDraw : spawnTick(d, CapSpawns)
FrameCap == gameLoop(CapStall)

NextCap ==
  \/ StartTap
  \/ CountdownCompleteCap
  \/ SpawnTimerCap
  \/ ScoreTimer
  \/ DifficultyTimer
  \/ FrameCap

SpecCap == Init /\ [][NextCap]_vars

\* A run with taps in which every physics step follows a long stall of the
\* animation frames.
NextStall ==
  \/ Tap
  \/ CountdownComplete
  \/ SpawnTimer
  \/ ScoreTimer
  \/ FrameCap

SpecStall == Init /\ [][NextStall]_vars

\* The spring animation of the player comes to rest (UI thread, lines 577, 584)
springRest ==
  /\ playerPosition # playerTarget
  /\ playerPosition' = playerTarget
  /\ UNCHANGED << gameState, gameStateRef, score, difficultyLevel, previousLevel,
                  obstacles, sharedValuePool, playerTarget, obstacleSpeed,
                  obstacleGenerationInterval, nextObstacleId, nextTapId, gameLoopRef,
                  obstacleGeneratorRef, spawnTimers, scoreIntervalRef, difficultyIncreaseRef,
                  loopRender, spawnRender, gameOverCalls, levelUps,
                  leakedTimers, replay, difficultyTicks, fallback, componentVars, sinceSpawn >>

\* A run in which a handler may run while the player's spring is still moving:
\* it reads the shared value where the animation has brought it.
TapInFlight == \E left \in BOOLEAN, p \in SpringProgress : handleTap(left, p)
SpringRest == springRest

NextMove ==
  \/ TapInFlight
  \/ SpringRest
  \/ CountdownCompleteCap
  \/ ScoreTimer
  \/ Frame

SpecMove == Init /\ [][NextMove]_vars

\* A run in which the player moves, with the spring at any progress, and the
\* spawns draw from PlaceDraws.
CountdownCompletePlace == \E d1 \in PlaceDraws, d2 \in OneDraw : startGame(d1, d2)
SpawnTimerPlace == \E d \in PlaceDraws : spawnTick(d, MaxSpawns)

NextPlace ==
  \/ TapInFlight
  \/ SpringRest
  \/ CountdownCompletePlace
  \/ SpawnTimerPlace

SpecPlace == Init /\ [][NextPlace]_vars

\* A long run of difficulty ticks, in which the player taps only to start.
\* Starts the record of a stretch of the run, once, at any moment of play.
beginReplay ==
  /\ gameStateRef = "playing"
  /\ ~replay.recording
  /\ replay.inputs = << >>
  /\ replay' = [ recording |-> TRUE, inputs |-> << >>,
                 start |-> Store(obstacles, sharedValuePool, nextObstacleId) ]
  /\ UNCHANGED << gameState, gameStateRef, score, difficultyLevel, previousLevel,
                  obstacles, sharedValuePool, playerPosition, playerTarget,
                  obstacleSpeed, obstacleGenerationInterval, nextObstacleId,
                  nextTapId, gameLoopRef, obstacleGeneratorRef, spawnTimers, scoreIntervalRef,
                  difficultyIncreaseRef, loopRender, spawnRender, gameOverCalls,
                  levelUps, leakedTimers, difficultyTicks, fallback, componentVars, sinceSpawn >>

DifficultyTimerLong == increaseDifficulty(LongTicks)
SpawnTimerOne == \E d \in OneDraw : spawnTick(d, MaxSpawns)

NextDiff ==
  \/ StartTap
  \/ CountdownCompleteCap
  \/ SpawnTimerOne
  \/ ScoreTimer
  \/ DifficultyTimerLong
  \/ Frame

SpecDiff == Init /\ [][NextDiff]_vars

\* A run of which one stretch is recorded, for the replay of its physics steps.
BeginReplay == beginReplay

NextReplay ==
  \/ StartTap
  \/ CountdownCompleteCap
  \/ SpawnTimerOne
  \/ ScoreTimer
  \/ DifficultyTimer
  \/ Frame
  \/ BeginReplay

SpecReplay == Init /\ [][NextReplay]_vars

\* The fallback loop of ObstacleGenerator run on drawn candidates (each draw
\* 0.0 or 0.5: the left edge or the middle of the screen), for players at the
\* left edge, the centre and the right edge and the two extreme widths.
ObstacleGeneratorFallback ==
  \E candidates \in [ 1..MaxCandidates -> {0, 1} ],
     width \in { OBSTACLE_MIN_WIDTH, OBSTACLE_MAX_WIDTH },
     playerCenter \in { PLAYER_SIZE \div 2, SCREEN_WIDTH \div 2,
                        SCREEN_WIDTH - PLAYER_SIZE \div 2 } :
    LET r == fallbackFrom(candidates, playerCenter, width, 0)
    IN /\ fallback' = [ x |-> r.x, attempts |-> r.attempts, candidates |-> candidates,
                        width |-> width, playerCenter |-> playerCenter ]
       /\ UNCHANGED << gameState, gameStateRef, score, difficultyLevel, previousLevel,
                       obstacles, sharedValuePool, playerPosition, playerTarget,
                       obstacleSpeed, obstacleGenerationInterval, nextObstacleId,
                       nextTapId, gameLoopRef, obstacleGeneratorRef, spawnTimers, scoreIntervalRef,
                       difficultyIncreaseRef, loopRender, spawnRender, gameOverCalls,
                       levelUps, leakedTimers, replay, difficultyTicks,
                       componentVars, sinceSpawn >>

NextFallback ==
  \/ ObstacleGeneratorFallback

SpecFallback == Init /\ [][NextFallback]_vars

\* A run without end in which the spawn interval keeps its period against
\* physics steps of StallFrames frame times.
SpawnTimerFolded == \E d \in OneDraw : spawnTickFolded(d)

NextLive ==
  \/ StartTap
  \/ CountdownCompleteCap
  \/ SpawnTimerFolded
  \/ Frame
  \/ DifficultyTimer

\* requestAnimationFrame and the intervals keep calling back
SpecLive ==
  /\ InitTimed
  /\ [][NextLive]_vars
  /\ WF_vars(Frame)
  /\ WF_vars(SpawnTimerFolded)
  /\ WF_vars(DifficultyTimer)

\* ---------------------------------------------------- the fixed-step loop
\* The times (thirds of a ms) between two animation frames: a third of a
\* frame, one frame, a frame and a half, the cap of 50 ms, and a stall.
Delays == { 17, 50, 75, 150, 400 }

\* A loop body that runs at most one physics step per invocation
consumeOnce(acc, n) ==
  IF acc >= targetFrameTime
    THEN [ accumulatedTime |-> acc - targetFrameTime, steps |-> n + 1 ]
    ELSE [ accumulatedTime |-> acc, steps |-> n ]

\* The while loop of part_008 lines 1074-1085: one physics step for each
\* whole targetFrameTime held by the accumulator.
RECURSIVE consume(_, _)
consume(acc, n) ==
  IF acc >= targetFrameTime
    THEN consume(acc - targetFrameTime, n + 1)
    ELSE [ accumulatedTime |-> acc, steps |-> n ]

\* One invocation of gameLoop of part_008 (lines 1062-1089), dt after the
\* previous one.  While the game is not playing it only asks for the next frame
\* (lines 1063-1066) and leaves lastTime alone.  elapsed adds up the
\* currentTime - lastTime of the invocations, each counted up to maxDeltaTime.
gameLoopFixedStep(playing, dt) ==
  /\ fixedStep.frames < MaxFrames
  /\ LET currentTime == fixedStep.now + dt
         deltaTime == Min(currentTime - fixedStep.lastTime, maxDeltaTime)
         c == consume(fixedStep.accumulatedTime + deltaTime, fixedStep.steps)
     IN fixedStep' =
          IF ~playing
            THEN [ fixedStep EXCEPT !.now = currentTime, !.frames = @ + 1 ]
            ELSE [ now |-> currentTime, lastTime |-> currentTime,
                   accumulatedTime |-> c.accumulatedTime, steps |-> c.steps,
                   elapsed |-> fixedStep.elapsed
                                 + Min(currentTime - fixedStep.lastTime, maxDeltaTime),
                   frames |-> fixedStep.frames + 1 ]
  /\ UNCHANGED << engineVars, screenVars, countdown, analytics >>

FixedStepFrame == \E playing \in BOOLEAN, dt \in Delays : gameLoopFixedStep(playing, dt)

NextFixedStep == FixedStepFrame

SpecFixedStep == Init /\ [][NextFixedStep]_vars

\* --------------------------------------------------------- CountdownTimer
\* The effect of CountdownTimer.tsx lines 28-43, run after a render that
\* changed count: at 0 it arms the 100 ms timeout once, above 0 it starts the
\* animation of lines 45-65.
countEffect(c) ==
  IF c.count = 0 /\ ~c.hasCalledComplete
    THEN [ c EXCEPT !.hasCalledComplete = TRUE, !.timeout = TRUE, !.animating = FALSE ]
    ELSE IF c.count > 0 THEN [ c EXCEPT !.animating = TRUE ]
    ELSE [ c EXCEPT !.animating = FALSE ]

\* GameEngine renders a CountdownTimer (lines 855-858): count 3 (line 17), the
\* refs of lines 20-21, then the two effects of the first render.
countdownMount ==
  /\ ~countdown.mounted
  /\ countdown.mounts < MaxMounts
  /\ countdown' = countEffect([ countdown EXCEPT
                     !.mounted = TRUE, !.mounts = @ + 1, !.count = 3,
                     !.hasCalledComplete = FALSE, !.timeout = FALSE,
                     !.onCompleteRef = countdown.onComplete,
                     !.shown = << 3 >>, !.finished = 0, !.decrements = 0,
                     !.completes = << >> ])
  /\ UNCHANGED << engineVars, screenVars, fixedStep, analytics >>

\* The parent renders again and passes a new onComplete: the effect of lines
\* 24-26 stores it in the ref.
countdownNewOnComplete ==
  /\ countdown.onComplete < MaxRenders
  /\ countdown' = [ countdown EXCEPT
                     !.onComplete = @ + 1,
                     !.onCompleteRef = IF countdown.mounted THEN countdown.onComplete + 1
                                                           ELSE @ ]
  /\ UNCHANGED << engineVars, screenVars, fixedStep, analytics >>

\* A callback of line 53 that does not look at finished
animationCallbackAlways(c, finished) ==
  IF c.count > 0
    THEN countEffect([ c EXCEPT !.count = @ - 1, !.decrements = @ + 1,
                                !.shown = Append(@, c.count - 1) ])
    ELSE [ c EXCEPT !.animating = FALSE ]

\* The callback of the last withTiming (lines 53-57): a finished animation
\* sets count to the count of its render less one, and the render it causes
\* runs the effect of lines 28-43.
animationCallback(c, finished) ==
  IF finished /\ c.count > 0
    THEN countEffect([ c EXCEPT !.count = @ - 1, !.decrements = @ + 1,
                                !.shown = Append(@, c.count - 1) ])
    ELSE [ c EXCEPT !.animating = FALSE ]

\* The animation started by startAnimation comes to its end, finished or
\* cancelled.
countdownAnimationEnds(finished) ==
  /\ countdown.mounted
  /\ countdown.animating
  /\ countdown' = animationCallback(
                    [ countdown EXCEPT !.finished = IF finished THEN @ + 1 ELSE @ ],
                    finished)
  /\ UNCHANGED << engineVars, screenVars, fixedStep, analytics >>

\* The timeout of lines 36-38 fires: onCompleteRef.current() is startGame of
\* GameEngine, whose render no longer shows the CountdownTimer.
countdownTimeout ==
  /\ countdown.timeout
  /\ countdown' = [ countdown EXCEPT
                     !.timeout = FALSE, !.mounted = FALSE,
                     !.completes = Append(@, [ onComplete |-> countdown.onCompleteRef,
                                               count |-> countdown.count ]) ]
  /\ UNCHANGED << engineVars, screenVars, fixedStep, analytics >>

CountdownMount == countdownMount
NewOnComplete == countdownNewOnComplete
AnimationEnds == \E finished \in BOOLEAN : countdownAnimationEnds(finished)
CountdownTimeout == countdownTimeout

NextCountdown ==
  \/ CountdownMount
  \/ NewOnComplete
  \/ AnimationEnds
  \/ CountdownTimeout

SpecCountdown == Init /\ [][NextCountdown]_vars

\* -------------------------------------------------------------- Analytics
\* [...events, newEvent].slice(-MAX_EVENTS) of Analytics.tsx line 43
sliceLast(events, newEvent) ==
  LET all == Append(events, newEvent)
  IN IF Len(all) <= MAX_EVENTS THEN all
     ELSE SubSeq(all, Len(all) - MAX_EVENTS + 1, Len(all))

\* The rest of trackEvent from line 43 on, for the call i holding events:
\* the cache is replaced, the setItem is issued and not awaited.
trackEventAppends(a, i, events) ==
  LET new == sliceLast(events, i)
  IN [ a EXCEPT !.cached = TRUE,
                !.eventsCache = new,
                !.setItems = Append(@, new),
                !.calls[i] = [ pc |-> "done", events |-> << >> ],
                !.completed = Append(@, i) ]

\* Analytics.trackEvent (lines 30-54) is called; events are told apart by
\* the number of their call.  With a cache the call runs to its end at once;
\* without one it waits in getEvents for AsyncStorage.getItem (line 62).
trackEvent ==
  /\ Len(analytics.calls) < MaxEvents
  /\ LET i == Len(analytics.calls) + 1
         a == [ analytics EXCEPT !.calls = Append(@, [ pc |-> "getItem", events |-> << >> ]) ]
     IN analytics' = IF analytics.cached
                       THEN trackEventAppends(a, i, analytics.eventsCache)
                       ELSE a
  /\ UNCHANGED << engineVars, screenVars, fixedStep, countdown >>

\* The getItem of call i resolves and getEvents goes on (lines 63-68): what
\* was read becomes the cache, whatever the cache holds by now, and is what
\* getEvents returns.  JSON.parse gives back the events JSON.stringify wrote.
getEventsResolves(i) ==
  /\ analytics.calls[i].pc = "getItem"
  /\ analytics' = [ analytics EXCEPT !.cached = TRUE,
                                     !.eventsCache = analytics.stored,
                                     !.calls[i] = [ pc |-> "await",
                                                    events |-> analytics.stored ] ]
  /\ UNCHANGED << engineVars, screenVars, fixedStep, countdown >>

\* trackEvent of call i goes on after its await of getEvents (line 40)
trackEventResumes(i) ==
  /\ analytics.calls[i].pc = "await"
  /\ analytics' = trackEventAppends(analytics, i, analytics.calls[i].events)
  /\ UNCHANGED << engineVars, screenVars, fixedStep, countdown >>

\* AsyncStorage carries out the oldest setItem of line 49
analyticsSetItemLands ==
  /\ analytics.setItems # << >>
  /\ analytics' = [ analytics EXCEPT !.stored = Head(analytics.setItems),
                                     !.setItems = Tail(@) ]
  /\ UNCHANGED << engineVars, screenVars, fixedStep, countdown >>

TrackEvent == trackEvent
GetEvents == \E i \in 1..Len(analytics.calls) : getEventsResolves(i)
TrackEventResumes == \E i \in 1..Len(analytics.calls) : trackEventResumes(i)
AnalyticsSetItem == analyticsSetItemLands

NextAnalytics ==
  \/ TrackEvent
  \/ GetEvents
  \/ TrackEventResumes
  \/ AnalyticsSetItem

SpecAnalytics == Init /\ [][NextAnalytics]_vars

\* ------------------------------------------------------------- GameScreen
\* handleGameOver of GameScreen.tsx (lines 104-107) is called with a score:
\* ensureHighScoreSaved (lines 70-101) issues getItem and waits.  cleared
\* tells the call made by clearHighScore of GameEngine.tsx (lines 623-626).
ensureHighScoreSaved(sc, cleared) ==
  /\ Len(saves) < MaxSaves
  /\ saves' = Append(saves, [ score |-> sc, pc |-> "getItem", cleared |-> cleared ])
  /\ UNCHANGED << storedHighScore, setItemQueue, engineVars, fixedStep, countdown,
                  analytics >>

\* The getItem of save i resolves (lines 73-74) and its continuation runs:
\* the score is written only if it is above the value read (lines 77-78).
\* score.toString() and parseInt are inverse on the integers a score can be.
getItemResolves(i) ==
  /\ saves[i].pc = "getItem"
  /\ LET currentHighScore == IF storedHighScore = NoItem THEN 0 ELSE storedHighScore
     IN IF saves[i].score > currentHighScore
          THEN /\ saves' = [ saves EXCEPT ![i].pc = "setItem" ]
               /\ setItemQueue' = Append(setItemQueue,
                                         [ save |-> i, value |-> saves[i].score ])
          ELSE /\ saves' = [ saves EXCEPT ![i].pc = "done" ]
               /\ UNCHANGED setItemQueue
  /\ UNCHANGED << storedHighScore, engineVars, fixedStep, countdown, analytics >>

\* AsyncStorage carries out the oldest setItem (line 78); the save that awaited
\* it goes on to its end.
setItemLands ==
  /\ setItemQueue # << >>
  /\ storedHighScore' = Head(setItemQueue).value
  /\ saves' = [ saves EXCEPT ![Head(setItemQueue).save].pc = "done" ]
  /\ setItemQueue' = Tail(setItemQueue)
  /\ UNCHANGED << engineVars, fixedStep, countdown, analytics >>

OnGameOver == \E sc \in 0..MaxReported : ensureHighScoreSaved(sc, FALSE)
ClearHighScore == ensureHighScoreSaved(0, TRUE)
GetItem == \E i \in 1..Len(saves) : getItemResolves(i)
SetItem == setItemLands

NextScore ==
  \/ OnGameOver
  \/ ClearHighScore
  \/ GetItem
  \/ SetItem

SpecScore == Init /\ [][NextScore]_vars

\* A run in which a collaborator may throw during the two start transitions.
StartTapWhen == \E fail \in Failures : handleTapWhen(fail)
CountdownCompleteWhen ==
  \E fail \in Failures, d1 \in OneDraw, d2 \in OneDraw : startGameWhen(fail, d1, d2)

NextFail ==
  \/ StartTapWhen
  \/ CountdownCompleteWhen
  \/ SpawnTimerOne
  \/ ScoreTimer
  \/ DifficultyTimer
  \/ Frame

SpecFail == Init /\ [][NextFail]_vars

\* ------------------------------------------------------------------- claims
\* Some live obstacle's hitbox overlaps the player's hitbox on both axes, by
\* the test of checkCollisions applied to the live list and the live cells.
Overlap ==
  \E i \in 1..Len(obstacles) :
    Collides(playerPosition, obstacles[i], YOf(sharedValuePool, obstacles[i]))

\* A start command (a tap in 'idle') or a restart command (in 'gameover')
StartOrRestart == (Tap /\ gameState = "idle") \/ handleRestart

\* C1: in every reachable state the number of live obstacles is at most
\* MAX_OBSTACLES.
C1_ObstacleCap == Len(obstacles) <= MAX_OBSTACLES

\* C2: the game state only ever changes by idle -> countdown,
\* countdown -> playing, playing -> gameover or gameover -> countdown.
C2_Transitions ==
  [][ gameState' # gameState =>
        << gameState, gameState' >> \in
          { << "idle", "countdown" >>, << "countdown", "playing" >>,
            << "playing", "gameover" >>, << "gameover", "countdown" >> } ]_vars
C2_Witness == gameState = "playing" /\ score > 0

\* C3: a physics step taken in 'playing' that ends with a live obstacle's
\* hitbox overlapping the player's hitbox ends in 'gameover'.
C3_CollisionEndsGame ==
  [][ (Frame /\ gameState = "playing" /\ Overlap') => gameState' = "gameover" ]_vars

\* C7: the score is never negative and changes only by a score tick adding
\* exactly 1 while the state is 'playing', or by a start or restart setting it
\* to 0.
C7_Score ==
  [][ /\ score >= 0
      /\ score' >= 0
      /\ score' # score =>
           \/ ScoreTimer /\ score' = score + 1
                /\ gameState = "playing" /\ gameState' = "playing"
           \/ StartOrRestart /\ score' = 0 ]_vars
C7_Witness == gameState = "playing" /\ score = 2

C10_TapIgnored ==
  [][ Tap =>
        /\ gameState \in { "countdown", "gameover" } =>
             UNCHANGED << playerPosition, playerTarget, score, obstacles, difficultyLevel,
                          obstacleSpeed, obstacleGenerationInterval, gameState,
                          gameStateRef >>
        /\ playerPosition' # playerPosition => gameState = "playing" ]_vars
C10_Witness == gameState = "countdown" /\ nextTapId = 2

\* The engine never reaches 'gameover': handleGameOver is called only by the
\* checkCollisions of the game loop, which reads the obstacle list of the
\* render that created startGame, and that list is empty.
GameOverUnreached == gameState # "gameover" /\ gameOverCalls = << >>

\* C11: the player's target x stays within [0, SCREEN_WIDTH - PLAYER_SIZE],
\* and a move in 'playing' changes it by min(PLAYER_MOVE_DISTANCE, distance to
\* the bound) in the direction of the tap, so not at all on the bound.
C11_MoveClamped ==
  [][ /\ 0 <= playerTarget' /\ playerTarget' <= SCREEN_WIDTH - PLAYER_SIZE
      /\ \A left \in BOOLEAN :
           (gameState = "playing" /\ \E p \in SpringProgress : handleTap(left, p)) =>
             playerTarget' =
               IF left
                 THEN playerTarget - Min(PLAYER_MOVE_DISTANCE, playerTarget)
                 ELSE playerTarget
                        + Min(PLAYER_MOVE_DISTANCE,
                              SCREEN_WIDTH - PLAYER_SIZE - playerTarget) ]_vars

\* The target alone never leaves the screen, whatever the spring does.
TargetInScreen == 0 <= playerTarget /\ playerTarget <= SCREEN_WIDTH - PLAYER_SIZE

\* C12: every obstacle the spawner creates lies inside the screen
\* horizontally: 0 <= x <= SCREEN_WIDTH - width.
C12_ObstacleInScreen ==
  \A i \in 1..Len(obstacles) :
    0 <= obstacles[i].x /\ obstacles[i].x <= SCREEN_WIDTH - obstacles[i].width
C12_Witness ==
  /\ \E i \in 1..Len(obstacles) :
       obstacles[i].x = SCREEN_WIDTH - obstacles[i].width
         /\ obstacles[i].width = OBSTACLE_MAX_WIDTH
  /\ \E i \in 1..Len(obstacles) : obstacles[i].x = 0
  /\ playerPosition # playerTarget

\* C13: within a run obstacleSpeed never decreases, the spawn interval never
\* increases, and the spawn interval is never below its minimum.
C13_DifficultyMonotonic ==
  [][ /\ obstacleGenerationInterval' >= OBSTACLE_GENERATION_INTERVAL_MIN
      /\ gameState = "playing" =>
           /\ obstacleSpeed' >= obstacleSpeed
           /\ obstacleGenerationInterval' <= obstacleGenerationInterval ]_vars
C13_Witness ==
  /\ gameState = "playing"
  /\ obstacleGenerationInterval = OBSTACLE_GENERATION_INTERVAL_MIN
  /\ obstacleSpeed > OBSTACLE_SPEED_INITIAL + 6 * OBSTACLE_SPEED_INCREMENT

\* C14: no two live obstacles share an id, and within a run the ids handed
\* out by successive spawns are strictly increasing: the live list, which is in
\* spawn order, has strictly increasing ids, all below the next id, and the
\* next id never goes back while 'playing'.
C14_FreshIds ==
  [][ /\ \A i, j \in 1..Len(obstacles') :
           i < j => obstacles'[i].id < obstacles'[j].id
      /\ \A i \in 1..Len(obstacles') : obstacles'[i].id < nextObstacleId'
      /\ gameState = "playing" => nextObstacleId' >= nextObstacleId ]_vars
C14_Witness ==
  /\ Len(obstacles) >= 2
  /\ obstacles[1].id >= 1
  /\ nextObstacleId = 3

\* C15: the step from 'countdown' to 'playing' spawns exactly one obstacle, and
\* leaves exactly one spawn timer, one score timer and one difficulty timer
\* armed.
C15_EnterPlaying ==
  [][ (gameState = "countdown" /\ gameState' = "playing") =>
        /\ Len(obstacles') = Len(obstacles) + 1
        /\ nextObstacleId' = nextObstacleId + 1
        /\ obstacleGeneratorRef' = "armed"
        /\ scoreIntervalRef' = "armed"
        /\ difficultyIncreaseRef' = "armed"
        /\ leakedTimers' = 0 ]_vars

\* What the step from 'countdown' to 'playing' does: two obstacles, and one
\* timer of each kind.
EnterPlayingSpawnsTwo ==
  [][ (gameState = "countdown" /\ gameState' = "playing") =>
        /\ Len(obstacles') = 2
        /\ nextObstacleId' = 2
        /\ obstacleGeneratorRef' = "armed"
        /\ scoreIntervalRef' = "armed"
        /\ difficultyIncreaseRef' = "armed"
        /\ leakedTimers' = 0 ]_vars

\* C16: one invocation of the physics loop advances an obstacle's y by no more
\* than the three steps at 60 Hz that 50 ms and a carried remainder hold,
\* however long the gap since the previous invocation.
C16_StepCapped ==
  [][ Frame =>
        \A i \in 1..Len(obstacles), j \in 1..Len(obstacles') :
          obstacles[i].id = obstacles'[j].id =>
            YOf(sharedValuePool', obstacles'[j]) - YOf(sharedValuePool, obstacles[i])
              <= 3 * obstacleSpeed ]_vars

\* C17: a physics step removes an obstacle exactly when the step carries its y
\* past SCREEN_HEIGHT + height, and removes none whose y is still at or above
\* that line. Stated for an obstacle that has its shared value cell to itself,
\* in a frame that runs while the game is playing.
C17_RemovedPastExit ==
  [][ (Frame /\ gameStateRef = "playing") =>
        \A i \in 1..Len(obstacles) :
          LET o == obstacles[i]
              alone == \A j \in 1..Len(obstacles) : j # i => obstacles[j].cell # o.cell
              y == YOf(sharedValuePool, o) + obstacleSpeed * StallFrames
              gone == \A j \in 1..Len(obstacles') : obstacles'[j].id # o.id
          IN alone => (gone <=> y > 10 * (SCREEN_HEIGHT + o.height)) ]_vars

\* What updateObstaclesWithDelta does instead: the obstacle goes in the step
\* that brings its y to SCREEN_HEIGHT or beyond.
RemovedAtScreenHeight ==
  [][ (Frame /\ gameStateRef = "playing") =>
        \A i \in 1..Len(obstacles) :
          LET o == obstacles[i]
              alone == \A j \in 1..Len(obstacles) : j # i => obstacles[j].cell # o.cell
              y == YOf(sharedValuePool, o) + obstacleSpeed * StallFrames
              gone == \A j \in 1..Len(obstacles') : obstacles'[j].id # o.id
          IN alone => (gone <=> y >= 10 * SCREEN_HEIGHT) ]_vars

C19_OrderIndependent ==
  \A q \in Orderings(obstacles) :
    (collisionLoop(q, sharedValuePool, playerPosition, 1) # -1)
      <=> (collisionLoop(obstacles, sharedValuePool, playerPosition, 1) # -1)

\* Two orderings of the live obstacles for which the walk reports different
\* obstacles, and a live obstacle that is not hit.
C19_Witness ==
  /\ \E q \in Orderings(obstacles) :
       /\ collisionLoop(q, sharedValuePool, playerPosition, 1) # -1
       /\ collisionLoop(obstacles, sharedValuePool, playerPosition, 1) # -1
       /\ collisionLoop(q, sharedValuePool, playerPosition, 1)
            # collisionLoop(obstacles, sharedValuePool, playerPosition, 1)
  /\ \E i \in 1..Len(obstacles) :
       ~Collides(playerPosition, obstacles[i], YOf(sharedValuePool, obstacles[i]))

\* C20: a transition during which a collaborator throws ends in the state it
\* ends in when no collaborator throws: each step of handleTap on the idle
\* screen and of startGame taken with a failing collaborator is a step the
\* same handler takes without a failure.
C20_FireAndForget ==
  [][ /\ (\E fail \in Collaborators : handleTapWhen(fail)) => handleTapWhen("none")
      /\ (\E fail \in Collaborators, d1 \in OneDraw, d2 \in OneDraw :
             startGameWhen(fail, d1, d2))
           => \E d1 \in OneDraw, d2 \in OneDraw : startGameWhen("none", d1, d2) ]_vars

\* What remains of it: a failure of playSound or of expo-haptics changes
\* nothing in either transition.
SoundAndHapticsCaught ==
  [][ /\ (\E fail \in { "playSound", "Haptics" } : handleTapWhen(fail))
           => handleTapWhen("none")
      /\ (\E fail \in { "playSound", "Haptics" }, d1 \in OneDraw, d2 \in OneDraw :
             startGameWhen(fail, d1, d2))
           => \E d1 \in OneDraw, d2 \in OneDraw : startGameWhen("none", d1, d2) ]_vars

\* After a start in which onGameStateChange threw, the game is playing with no
\* score timer, no difficulty timer and no physics loop.
PlayingWithoutTimers ==
  /\ gameState = "playing"
  /\ scoreIntervalRef = "null"
  /\ difficultyIncreaseRef = "null"
  /\ gameLoopRef = "null"

\* The safe zone of lines 328-331 around a player at px
safeZoneLeft(px) == Max(0, px + (PLAYER_SIZE \div 2) - (PLAYER_SIZE * 5) \div 2)
safeZoneRight(px) == Min(SCREEN_WIDTH, px + (PLAYER_SIZE \div 2) + (PLAYER_SIZE * 5) \div 2)

\* C21: an obstacle spawned while a side of the safe zone around the player
\* has free width of at least the obstacle's width lies entirely left of
\* safeZoneLeft or entirely right of safeZoneRight.
C21_OutsideSafeZone ==
  [][ \A j \in 1..Len(obstacles') :
        LET o == obstacles'[j]
        IN (/\ o.id >= nextObstacleId
            /\ \/ safeZoneLeft(playerPosition) >= o.width
               \/ SCREEN_WIDTH - safeZoneRight(playerPosition) >= o.width)
           => \/ o.x + o.width <= safeZoneLeft(playerPosition)
              \/ o.x >= safeZoneRight(playerPosition) ]_vars

\* The candidate position the fallback loop computes from its i-th draw
CandidateX(i) == (fallback.candidates[i] * (SCREEN_WIDTH - fallback.width)) \div 2

\* C22: the fallback loop ends after at most FALLBACK_ATTEMPTS draws with the
\* obstacle at the last candidate it drew, a position inside the screen, also
\* when every candidate it drew is within PLAYER_SIZE of the player's centre.
C22_FallbackTerminates ==
  fallback.attempts > 0 =>
    /\ fallback.attempts <= FALLBACK_ATTEMPTS
    /\ fallback.x = CandidateX(fallback.attempts)
    /\ fallback.x >= 0
    /\ fallback.x <= SCREEN_WIDTH - fallback.width

\* A run of the loop in which all five candidates are over the player, and
\* the fifth is taken.
C22_Witness ==
  /\ fallback.attempts = FALLBACK_ATTEMPTS
  /\ \A i \in 1..FALLBACK_ATTEMPTS :
       Distance(CandidateX(i) + fallback.width \div 2, fallback.playerCenter) < PLAYER_SIZE
  /\ fallback.x = CandidateX(FALLBACK_ATTEMPTS)

\* The loop stops at the first candidate that is clear of the player.
FallbackStopsWhenClear ==
  \A i \in 1..fallback.attempts :
    i < fallback.attempts =>
      Distance(CandidateX(i) + fallback.width \div 2, fallback.playerCenter) < PLAYER_SIZE

\* In GameEngine.tsx a spawn that is due while the game is playing adds one
\* obstacle, whatever the room beside the safe zone.
SpawnNeverFails ==
  [][ (SpawnTimerPlace /\ gameStateRef = "playing") =>
        /\ Len(obstacles') = Len(obstacles) + 1
        /\ nextObstacleId' = nextObstacleId + 1 ]_vars

\* C23: after the k-th difficulty tick of a run the spawn interval is
\* max(800, 2000 - 200 * k) ms and the obstacle speed is the initial speed
\* plus k increments of 0.2.
C23_DifficultyAfterTicks ==
  gameState # "idle" =>
    /\ obstacleGenerationInterval
         = Max(OBSTACLE_GENERATION_INTERVAL_MIN,
               OBSTACLE_GENERATION_INTERVAL_INITIAL - 200 * difficultyTicks)
    /\ obstacleSpeed = OBSTACLE_SPEED_INITIAL + difficultyTicks * OBSTACLE_SPEED_INCREMENT

\* A run two ticks past the one that brought the interval to its minimum
C23_Witness ==
  /\ gameState = "playing"
  /\ difficultyTicks = 8
  /\ obstacleGenerationInterval = OBSTACLE_GENERATION_INTERVAL_MIN
  /\ obstacleSpeed = OBSTACLE_SPEED_INITIAL + 8 * OBSTACLE_SPEED_INCREMENT

\* C24: after the k-th difficulty tick of a run the difficulty level is 1 + k.
C24_LevelAfterTicks ==
  gameState # "idle" => difficultyLevel = 1 + difficultyTicks

\* What the interval armed by startGame does instead: its increaseDifficulty
\* reads the level of the render of startGame, and every tick sets level 2.
LevelStuckAtTwo ==
  gameState # "idle" => difficultyLevel = IF difficultyTicks = 0 THEN 1 ELSE 2

\* C25: a difficulty tick while playing produces exactly one level-up
\* notification, carrying the new level, and no other step produces one.
C25_LevelUpPerTick ==
  [][ IF DifficultyTimer /\ gameState = "playing"
        THEN levelUps' = Append(levelUps, difficultyLevel')
        ELSE levelUps' = levelUps ]_vars

\* What remains of it: only the first tick of a run is announced, with level
\* 2, and no step other than a difficulty tick announces anything.
LevelUpOnFirstTickOnly ==
  [][ IF DifficultyTimer /\ gameState = "playing" /\ difficultyTicks = 0
        THEN levelUps' = Append(levelUps, 2)
        ELSE levelUps' = levelUps ]_vars

\* C26: one physics step adds the same displacement, the speed times the
\* step scale, exactly once to the y of every live obstacle it keeps, and
\* leaves the obstacle's x, width, height and id as they were.
C26_StepMovesEachOnce ==
  [][ (Frame /\ gameStateRef = "playing") =>
        \A i \in 1..Len(obstacles), j \in 1..Len(obstacles') :
          obstacles[i].id = obstacles'[j].id =>
            /\ YOf(sharedValuePool', obstacles'[j]) - YOf(sharedValuePool, obstacles[i])
                 = obstacleSpeed * StallFrames
            /\ obstacles'[j] = obstacles[i] ]_vars

\* What remains of it: the step leaves every field of a kept obstacle alone,
\* and an obstacle that has its cell to itself moves by one displacement.
StepMovesUnsharedOnce ==
  [][ (Frame /\ gameStateRef = "playing") =>
        \A i \in 1..Len(obstacles), j \in 1..Len(obstacles') :
          obstacles[i].id = obstacles'[j].id =>
            /\ (\A k \in 1..Len(obstacles) : k # i => obstacles[k].cell # obstacles[i].cell)
                 => YOf(sharedValuePool', obstacles'[j]) - YOf(sharedValuePool, obstacles[i])
                      = obstacleSpeed * StallFrames
            /\ obstacles'[j] = obstacles[i] ]_vars

\* The list obs with the obstacle o put after its first k obstacles
Inserted(obs, k, o) == SubSeq(obs, 1, k) \o << o >> \o SubSeq(obs, k + 1, Len(obs))

\* Obstacles without a y that stand where the player is
Malformed ==
  { [ id |-> nextObstacleId, x |-> playerPosition, width |-> w,
      height |-> OBSTACLE_MAX_HEIGHT, cell |-> NoCell ] :
      w \in { OBSTACLE_MIN_WIDTH, OBSTACLE_MAX_WIDTH } }

\* C27: the collision walk skips an obstacle whose y is missing: on the live
\* list with such an obstacle put anywhere in it the walk reports what it
\* reports on the live list itself.
C27_MissingYSkipped ==
  \A k \in 0..Len(obstacles), m \in Malformed :
    collisionLoop(Inserted(obstacles, k, m), sharedValuePool, playerPosition, 1)
      = collisionLoop(obstacles, sharedValuePool, playerPosition, 1)

\* A live list with a hit, found by the walk past an obstacle without a y
\* that stands first in the list.
C27_Witness ==
  /\ obstacles # << >>
  /\ \E m \in Malformed :
       collisionLoop(Inserted(obstacles, 0, m), sharedValuePool, playerPosition, 1) >= 0

\* The player's rectangle and the obstacle's rectangle, each shrunk inward by
\* collisionBuffer on all four sides, overlap strictly on both axes (y and the
\* vertical bounds in tenths of a pixel).
ShrunkOverlap(px, o, y) ==
  /\ px + PLAYER_SIZE - collisionBuffer > o.x + collisionBuffer
  /\ px + collisionBuffer < o.x + o.width - collisionBuffer
  /\ 10 * (SCREEN_HEIGHT - PLATFORM_HEIGHT - PLAYER_SIZE + collisionBuffer)
       < y + 10 * o.height - 10 * collisionBuffer
  /\ 10 * (SCREEN_HEIGHT - PLATFORM_HEIGHT - collisionBuffer) > y + 10 * collisionBuffer

\* C28: the collision test reports a live obstacle exactly when the two
\* rectangles, each shrunk inward by its buffer on all four sides, overlap
\* strictly on both axes.
C28_ShrunkOnAllSides ==
  \A i \in 1..Len(obstacles) :
    Collides(playerPosition, obstacles[i], YOf(sharedValuePool, obstacles[i]))
      <=> ShrunkOverlap(playerPosition, obstacles[i], YOf(sharedValuePool, obstacles[i]))

\* What remains of it: rectangles that overlap when shrunk on all sides are
\* reported.
ShrunkOverlapIsReported ==
  \A i \in 1..Len(obstacles) :
    ShrunkOverlap(playerPosition, obstacles[i], YOf(sharedValuePool, obstacles[i]))
      => Collides(playerPosition, obstacles[i], YOf(sharedValuePool, obstacles[i]))

\* Some live obstacle overlaps the player when both are shrunk on all sides.
ShrunkOverlapReached ==
  \E i \in 1..Len(obstacles) :
    ShrunkOverlap(playerPosition, obstacles[i], YOf(sharedValuePool, obstacles[i]))

\* The horizontal part of the test of checkCollisions (lines 525-526)
HitboxOverlapX(px, o) ==
  /\ px + PLAYER_SIZE - collisionBuffer > o.x
  /\ px + collisionBuffer < o.x + o.width

\* The obstacle is entirely above the player's hitbox (y in tenths)
AboveHitbox(o, y) ==
  y + 10 * o.height <= 10 * (SCREEN_HEIGHT - PLATFORM_HEIGHT - PLAYER_SIZE + collisionBuffer)

\* C29: no tunneling. An obstacle over the hitbox of a player who stays where
\* they are is not removed by the very physics step before which it was
\* entirely above the player's hitbox: between being above and expiring there
\* is a step after which the collision check finds it.
C29_NoTunneling ==
  [][ (FrameCap \/ Frame) =>
        \A i \in 1..Len(obstacles) :
          LET o == obstacles[i]
          IN (/\ HitboxOverlapX(playerPosition, o)
              /\ AboveHitbox(o, YOf(sharedValuePool, o))
              /\ playerPosition' = playerPosition)
             => \E j \in 1..Len(obstacles') : obstacles'[j].id = o.id ]_vars

\* C30: a spawn attempt made while the live count is at or above
\* MAX_OBSTACLES creates no obstacle and changes neither the live set nor the
\* id counter.
C30_SpawnNoOpAtCap ==
  [][ (SpawnTimerCap /\ Len(obstacles) >= MAX_OBSTACLES) =>
        UNCHANGED << obstacles, sharedValuePool, nextObstacleId >> ]_vars

\* C31: no two live obstacles hold the same y cell of the pool.
C31_OwnCell ==
  \A i, j \in 1..Len(obstacles) :
    i # j => obstacles[i].cell # obstacles[j].cell

\* What holds instead: every live obstacle is on cell 0 or cell 1.
CellsZeroOrOne ==
  \A i \in 1..Len(obstacles) : obstacles[i].cell \in {0, 1}

\* C32: when the save started by the dev menu's 'clear high score' has run
\* to its end, the stored high score is 0 (an item never set reads as 0).
C32_ClearResets ==
  [][ \A i \in 1..Len(saves) :
        (saves[i].cleared /\ saves[i].pc # "done" /\ saves'[i].pc = "done")
          => (storedHighScore' = 0 \/ storedHighScore' = NoItem) ]_vars

\* What clearHighScore does instead: its save never writes, so the stored
\* item is what it was.
ClearChangesNothing ==
  [][ \A i \in 1..Len(saves) :
        (saves[i].cleared /\ saves[i].pc # "done" /\ saves'[i].pc = "done")
          => storedHighScore' = storedHighScore ]_vars

\* The stored high score as loadHighScore and ensureHighScoreSaved read it
HighScoreRead == IF storedHighScore = NoItem THEN 0 ELSE storedHighScore
\* The highest score reported to handleGameOver so far
HighestReported ==
  CHOOSE m \in {0} \cup { saves[i].score : i \in 1..Len(saves) } :
    \A i \in 1..Len(saves) : saves[i].score <= m
AllSavesDone == \A i \in 1..Len(saves) : saves[i].pc = "done"

StoredWasReported ==
  storedHighScore = NoItem \/ \E i \in 1..Len(saves) : saves[i].score = storedHighScore

\* C33: while an obstacle is live its y never decreases: no physics step,
\* spawn or expiry of another obstacle moves it back up.
C33_YNeverDecreases ==
  [][ \A i \in 1..Len(obstacles), j \in 1..Len(obstacles') :
        obstacles[i].id = obstacles'[j].id =>
          YOf(sharedValuePool', obstacles'[j]) >= YOf(sharedValuePool, obstacles[i]) ]_vars

\* What holds instead: an obstacle that has had its cell to itself before and
\* after a step has not moved up in it.
UnsharedYNeverDecreases ==
  [][ \A i \in 1..Len(obstacles), j \in 1..Len(obstacles') :
        ( /\ obstacles[i].id = obstacles'[j].id
          /\ \A k \in 1..Len(obstacles) : k # i => obstacles[k].cell # obstacles[i].cell
          /\ \A k \in 1..Len(obstacles') : k # j => obstacles'[k].cell # obstacles'[j].cell )
          => YOf(sharedValuePool', obstacles'[j]) >= YOf(sharedValuePool, obstacles[i]) ]_vars

\* C34: while the game is playing exactly one spawn interval is live and its
\* period is the current obstacleGenerationInterval; a difficulty tick that
\* lowers the interval leaves only an interval of the new period in force.
C34_OneSpawnTimer ==
  /\ [](gameState = "playing" => spawnTimers = << obstacleGenerationInterval >>)
  /\ [][ obstacleGenerationInterval' < obstacleGenerationInterval
           => /\ Len(spawnTimers') = 1
              /\ \A i \in 1..Len(spawnTimers') :
                   spawnTimers'[i] = obstacleGenerationInterval' ]_vars

C34_Witness ==
  /\ gameState = "playing"
  /\ difficultyTicks >= 2
  /\ obstacleGenerationInterval = OBSTACLE_GENERATION_INTERVAL_INITIAL - 400
  /\ spawnTimers = << obstacleGenerationInterval >>

\* C35: after every invocation of the fixed-step loop the accumulator is at
\* least 0 and below one step, and the steps run so far times the step plus
\* the accumulator is the sum of the elapsed times of the invocations, each
\* counted up to 50 ms.
C35_AccumulatorConserved ==
  /\ 0 <= fixedStep.accumulatedTime
  /\ fixedStep.accumulatedTime < targetFrameTime
  /\ fixedStep.steps * targetFrameTime + fixedStep.accumulatedTime = fixedStep.elapsed

\* A stall of 400 thirds of a ms was counted as 150: 17 + 150 + 75 = 4 * 50 + 42.
C35_Witness ==
  /\ fixedStep.frames = 3
  /\ fixedStep.now = 17 + 400 + 75
  /\ fixedStep.steps = 4
  /\ fixedStep.accumulatedTime = 42

\* The player's rectangle and the obstacle's rectangle as they are drawn,
\* neither shrunk, overlap on both axes (y in tenths of a pixel).
RectanglesOverlap(px, o, y) ==
  /\ px + PLAYER_SIZE > o.x
  /\ px < o.x + o.width
  /\ 10 * (SCREEN_HEIGHT - PLATFORM_HEIGHT - PLAYER_SIZE) < y + 10 * o.height
  /\ 10 * (SCREEN_HEIGHT - PLATFORM_HEIGHT) > y

\* C36: whenever the collision test reports a live obstacle, the unshrunk
\* rectangle of the player and the unshrunk rectangle of the obstacle overlap
\* on both axes.
C36_TestIsSound ==
  \A i \in 1..Len(obstacles) :
    LET o == obstacles[i]
        y == YOf(sharedValuePool, o)
    IN /\ Collides(playerPosition, o, y) => RectanglesOverlap(playerPosition, o, y)
       /\ \A buffer \in {4, 8} :
            CollidesRevision(playerPosition, o, y, buffer)
              => RectanglesOverlap(playerPosition, o, y)

\* The test reports an obstacle whose rectangle overlaps the player's by less
\* than the buffer would allow on all four sides.
C36_Witness ==
  \E i \in 1..Len(obstacles) :
    LET o == obstacles[i]
        y == YOf(sharedValuePool, o)
    IN /\ Collides(playerPosition, o, y)
       /\ CollidesRevision(playerPosition, o, y, 4)
       /\ ~ShrunkOverlap(playerPosition, o, y)

\* The first n elements of the sequence s
Prefix(s, n) == SubSeq(s, 1, n)

\* C37: a CountdownTimer shows 3, 2, 1, 0 in this order, takes one off its
\* count for each animation that finished, and calls onComplete at most once
\* and only with its count at 0.
C37_CountsDownOnce ==
  /\ countdown.shown = Prefix(<< 3, 2, 1, 0 >>, Len(countdown.shown))
  /\ countdown.mounts > 0 => countdown.count = 3 - countdown.decrements
  /\ countdown.decrements = countdown.finished
  /\ Len(countdown.completes) <= 1
  /\ \A i \in 1..Len(countdown.completes) : countdown.completes[i].count = 0
  /\ countdown.timeout => countdown.count = 0

\* The second timer mounted has counted down and called the onComplete of the
\* latest render of its parent.
C37_Witness ==
  /\ countdown.mounts = 2
  /\ countdown.shown = << 3, 2, 1, 0 >>
  /\ countdown.completes = << [ onComplete |-> MaxRenders, count |-> 0 ] >>

\* C39: no tracked event is lost: once every call of trackEvent has run to
\* its end, the in-memory list holds the events tracked, the most recent
\* MAX_EVENTS of them, in the order in which their calls came to their end.
C39_NoEventLost ==
  (/\ analytics.calls # << >>
   /\ \A i \in 1..Len(analytics.calls) : analytics.calls[i].pc = "done")
    => /\ analytics.cached
       /\ analytics.eventsCache = analytics.completed


\* The obstacle with this id is in the live list
IsLive(id) == \E i \in 1..Len(obstacles) : obstacles[i].id = id

LiveBound == Len(obstacles) <= MaxLive

====
